---- MODULE Spec2Model ----
(***************************************************************************)
(* Model of src/main.py: the Cloud Storage event handler process_file.     *)
(*                                                                         *)
(* One invocation of process_file is a process that walks through the      *)
(* statements of the function (its position is pc, named after the source  *)
(* line it is about to execute).  The invoking platform delivers           *)
(* notifications (Invoke), may deliver the same event object again         *)
(* (Redeliver), and may run several invocations at once (Dispatch).  All   *)
(* invocations write to the one sys.stdout of the process: a print() call  *)
(* is a call of sys.stdout.write with the text followed by a call with the *)
(* newline, and control can pass to another invocation inside a call.      *)
(* printed[i] is what invocation i has printed, frag is the text on the    *)
(* stream that no newline has ended yet.  For an invocation that the       *)
(* platform runs on its own (Invoke, Redeliver) the caller captures the    *)
(* lines that its newlines end on the stream: out[i].                      *)
(***************************************************************************)
EXTENDS Integers, Sequences, FiniteSets

\* ------------------------------------------------------------------ bounds
\* Number of invocation slots the platform may run at the same time.
NumInv == 2
\* Integer sizes 0..MaxSize are tried as the value of the "size" key.
MaxSize == 3
\* The platform starts an invocation only while at most MaxFrag texts are on
\* the stream that no newline has ended (texts are left there by print calls
\* whose write of the newline raised).
MaxFrag == 2

Inv == 1..NumInv
\* The slot used by the specifications that run one invocation at a time.
Solo == {1}

\* ------------------------------------------------------------------ values
\* Python values that occur in a notification: None, str and int.
NoneVal == [t |-> "none"]
StrVal(s) == [t |-> "str", s |-> s]
IntVal(n) == [t |-> "int", n |-> n]
\* A local variable that is not bound (yet, or any more).
Unset == [t |-> "unset"]
\* Marks a key that a notification does not contain.
Absent == [t |-> "absent"]

Digits == <<"0", "1", "2", "3", "4", "5", "6", "7", "8", "9">>

\* str(n) of a Python int: decimal digits, with a leading '-' when negative.
RECURSIVE NatToStr(_)
NatToStr(n) ==
    IF n < 10 THEN Digits[n + 1]
    ELSE NatToStr(n \div 10) \o Digits[(n % 10) + 1]

IntToStr(n) == IF n < 0 THEN "-" \o NatToStr(0 - n) ELSE NatToStr(n)

\* What an f-string replacement field {v} produces: format(v, "") = str(v).
Str(v) ==
    CASE v.t = "str"  -> v.s
      [] v.t = "int"  -> IntToStr(v.n)
      [] v.t = "none" -> "None"

\* ----------------------------------------------------------- notifications
Keys == {"bucket", "name", "contentType", "size", "timeCreated"}

BucketValues == {StrVal("uploads")}
NameValues == {StrVal("a.txt"), StrVal("b.bin")}
ContentTypeValues == {StrVal("text/plain"), StrVal(""), NoneVal}
SizeValues ==
    {IntVal(n) : n \in 0..MaxSize} \cup
    {IntVal(120), IntVal(0 - 1), StrVal("120"), NoneVal}
TimeCreatedValues == {StrVal("2024-01-01T00:00:00Z"), NoneVal}

\* The mapping that holds exactly the keys of f whose value is not Absent.
Notification(f) == [k \in {x \in Keys : f[x] # Absent} |-> f[k]]

\* Every notification tried: each key absent or present with one of its values.
Notifications ==
    {Notification(f) : f \in [bucket : BucketValues \cup {Absent},
                              name : NameValues \cup {Absent},
                              contentType : ContentTypeValues \cup {Absent},
                              size : SizeValues \cup {Absent},
                              timeCreated : TimeCreatedValues \cup {Absent}]}

\* The notifications delivered where writes may raise or invocations overlap.
SmallNotifications ==
    {Notification(f) : f \in [bucket : BucketValues \cup {Absent},
                              name : NameValues \cup {Absent},
                              contentType : {Absent},
                              size : {IntVal(120)},
                              timeCreated : {Absent}]}

\* -------------------------------------------------------------- exceptions
NoExc == [type |-> "none", msg |-> ""]
\* KeyError(k); str() of it is the repr of the key.
KeyError(k) == [type |-> "KeyError", msg |-> "'" \o k \o "'"]
\* Errors a write to the output stream can raise.
WriteErrors ==
    {[type |-> "BrokenPipeError", msg |-> "[Errno 32] Broken pipe"],
     [type |-> "ValueError", msg |-> "I/O operation on closed file."]}

\* ------------------------------------------------------------------- state
VARIABLES
    pc,            \* position of each invocation ("idle" when not running)
    event,         \* the notification object the platform holds per slot
    given,         \* the notification as it was when it was last delivered
    data,          \* local: data
    bucket_name,   \* local: bucket_name
    file_name,     \* local: file_name
    content_type,  \* local: content_type
    size,          \* local: size
    time_created,  \* local: time_created
    e,             \* local: the exception bound by "except Exception as e"
    frag,          \* sys.stdout: the texts written since the last newline
    printed,       \* the lines the current/last invocation of the slot has
                   \* printed: the text of each print call that returned
    capture,       \* whether the caller captures the lines of the slot
    out,           \* the captured lines: those ended by a newline of the
                   \* current/last invocation of the slot
    result,        \* "none" (never ran), "running", "returned" or "raised"
    exc,           \* the exception that left the last invocation, or NoExc
    last           \* outcome of the previous invocation when it was given
                   \* the identical notification, else NoOutcome

vars == <<pc, event, given, data, bucket_name, file_name, content_type, size,
          time_created, e, frag, printed, capture, out, result,
                   exc, last>>

locals == <<data, bucket_name, file_name, content_type, size, time_created, e>>

NoOutcome == [out |-> <<>>, result |-> "none", exc |-> NoExc]
Outcome(i) == [out |-> out[i], result |-> result[i], exc |-> exc[i]]

Init ==
    /\ pc = [i \in Inv |-> "idle"]
    /\ event = [i \in Inv |-> Unset]
    /\ given = [i \in Inv |-> Unset]
    /\ data = [i \in Inv |-> Unset]
    /\ bucket_name = [i \in Inv |-> Unset]
    /\ file_name = [i \in Inv |-> Unset]
    /\ content_type = [i \in Inv |-> Unset]
    /\ size = [i \in Inv |-> Unset]
    /\ time_created = [i \in Inv |-> Unset]
    /\ e = [i \in Inv |-> NoExc]
    /\ frag = <<>>
    /\ printed = [i \in Inv |-> <<>>]
    /\ capture = [i \in Inv |-> TRUE]
    /\ out = [i \in Inv |-> <<>>]
    /\ result = [i \in Inv |-> "none"]
    /\ exc = [i \in Inv |-> NoExc]
    /\ last = [i \in Inv |-> NoOutcome]

\* ---------------------------------------------------------------- platform
\* The platform calls process_file(cloud_event) with a new notification d.
Invoke(i, d) ==
    /\ pc[i] = "idle"
    /\ Len(frag) <= MaxFrag
    /\ event' = [event EXCEPT ![i] = d]
    /\ given' = [given EXCEPT ![i] = d]
    /\ last' = [last EXCEPT ![i] =
                  IF result[i] # "none" /\ given[i] = d
                  THEN Outcome(i) ELSE NoOutcome]
    /\ out' = [out EXCEPT ![i] = <<>>]
    /\ result' = [result EXCEPT ![i] = "running"]
    /\ exc' = [exc EXCEPT ![i] = NoExc]
    /\ capture' = [capture EXCEPT ![i] = TRUE]
    /\ printed' = [printed EXCEPT ![i] = <<>>]
    /\ pc' = [pc EXCEPT ![i] = "l20"]
    /\ UNCHANGED frag
    /\ UNCHANGED locals

\* The platform calls process_file again with the event object it still holds.
Redeliver(i) ==
    /\ pc[i] = "idle"
    /\ Len(frag) <= MaxFrag
    /\ result[i] # "none"
    /\ last' = [last EXCEPT ![i] = Outcome(i)]
    /\ out' = [out EXCEPT ![i] = <<>>]
    /\ result' = [result EXCEPT ![i] = "running"]
    /\ exc' = [exc EXCEPT ![i] = NoExc]
    /\ pc' = [pc EXCEPT ![i] = "l20"]
    /\ capture' = [capture EXCEPT ![i] = TRUE]
    /\ printed' = [printed EXCEPT ![i] = <<>>]
    /\ UNCHANGED <<event, given, frag>>
    /\ UNCHANGED locals

\* The platform calls process_file(cloud_event) with a new notification d
\* while other invocations may be running; the lines on the stream are not
\* captured per invocation then.
Dispatch(i, d) ==
    /\ pc[i] = "idle"
    /\ event' = [event EXCEPT ![i] = d]
    /\ given' = [given EXCEPT ![i] = d]
    /\ last' = [last EXCEPT ![i] = NoOutcome]
    /\ out' = [out EXCEPT ![i] = <<>>]
    /\ result' = [result EXCEPT ![i] = "running"]
    /\ exc' = [exc EXCEPT ![i] = NoExc]
    /\ capture' = [capture EXCEPT ![i] = FALSE]
    /\ printed' = [printed EXCEPT ![i] = <<>>]
    /\ pc' = [pc EXCEPT ![i] = "l20"]
    /\ UNCHANGED frag
    /\ UNCHANGED locals

\* ----------------------------------------------------------------- helpers
\* Variant of Get: data.get(k), the default is forgotten.
GetNoDefault(d, k, default) == IF k \in DOMAIN d THEN d[k] ELSE NoneVal

\* Python truth value of a notification value.
Truthy(v) == v # NoneVal /\ v # StrVal("") /\ v # IntVal(0)

\* Variant of Get: data.get(k) or default, a falsy value is replaced too.
GetOrDefault(d, k, default) ==
    IF k \in DOMAIN d /\ Truthy(d[k]) THEN d[k] ELSE default

\* dict.get(k, default)
Get(d, k, default) == IF k \in DOMAIN d THEN d[k] ELSE default

\* The invocation ends with exception x propagating to the caller; its frame
\* (the locals) is dropped.
Raise(i, x) ==
    /\ pc' = [pc EXCEPT ![i] = "idle"]
    /\ result' = [result EXCEPT ![i] = "raised"]
    /\ exc' = [exc EXCEPT ![i] = x]
    /\ data' = [data EXCEPT ![i] = Unset]
    /\ bucket_name' = [bucket_name EXCEPT ![i] = Unset]
    /\ file_name' = [file_name EXCEPT ![i] = Unset]
    /\ content_type' = [content_type EXCEPT ![i] = Unset]
    /\ size' = [size EXCEPT ![i] = Unset]
    /\ time_created' = [time_created EXCEPT ![i] = Unset]
    /\ e' = [e EXCEPT ![i] = NoExc]
    /\ UNCHANGED <<event, given, frag, printed, capture, out, last>>

\* The positions of the print calls.
PrintCalls == {"l29", "l30", "l31", "l32", "l33", "l34", "l46", "l59"}

\* The position inside the call of sys.stdout.write entered at position p.
W(p) == p \o "w"

\* The position between the two writes of the print call of position at: the
\* write of the text has returned, the write of the newline is not entered.
Nl(at) == at \o "n"

\* The positions of the print call of position at.
Positions(at) == {at, W(at), Nl(at), W(Nl(at))}

\* The positions at which an invocation is inside a call of sys.stdout.write.
InsideWrite == {W(at) : at \in PrintCalls} \cup {W(Nl(at)) : at \in PrintCalls}

\* Invocation i enters a write while another invocation is inside one.
Overlaps(i) == \E j \in Inv \ {i} : pc[j] \in InsideWrite

\* The stream after writes of two invocations overlapped.  sys.stdout is one
\* text stream without a lock, so the two writes race on its buffer: from
\* then on the program does not determine what is on the stream (texts can be
\* missing, repeated, cut, or mixed with other bytes), and Torn stands for
\* every such content.
Torn == <<"<any content: writes of two invocations overlapped>">>

\* The texts of a fragment joined into the line they form.
RECURSIVE Concat(_)
Concat(texts) ==
    IF texts = <<>> THEN "" ELSE Head(texts) \o Concat(Tail(texts))

\* Invocation i, at position p, enters the call of sys.stdout.write.
EnterWrite(i, p) ==
    /\ pc[i] = p
    /\ frag' = IF Overlaps(i) THEN Torn ELSE frag
    /\ pc' = [pc EXCEPT ![i] = W(p)]
    /\ UNCHANGED <<event, given, printed, capture, out, result, exc, last>>
    /\ UNCHANGED locals

\* print(text), first write: sys.stdout.write(text) is entered, and returns
\* with the text on the stream.
WriteText(i, at, text) ==
    \/ EnterWrite(i, at)
    \/ /\ pc[i] = W(at)
       /\ frag' = IF frag = Torn THEN Torn ELSE Append(frag, text)
       /\ pc' = [pc EXCEPT ![i] = Nl(at)]
       /\ UNCHANGED <<event, given, printed, capture, out, result, exc, last>>
       /\ UNCHANGED locals

\* print(text), second write: sys.stdout.write("\n") is entered, and returns
\* with the line that is on the stream ended; the print call has returned
\* and control moves on to position to.
WriteNewline(i, at, text, to) ==
    \/ EnterWrite(i, Nl(at))
    \/ /\ pc[i] = W(Nl(at))
       /\ frag' = IF frag = Torn THEN Torn ELSE <<>>
       /\ out' = [out EXCEPT ![i] =
                    IF capture[i] THEN Append(out[i], Concat(frag)) ELSE out[i]]
       /\ printed' = [printed EXCEPT ![i] = Append(printed[i], text)]
       /\ pc' = [pc EXCEPT ![i] = to]
       /\ UNCHANGED <<event, given, capture, result, exc, last>>
       /\ UNCHANGED locals

\* print(line) at position at, after which control moves on to position to.
PrintLine(i, at, line, to) ==
    \/ WriteText(i, at, line)
    \/ WriteNewline(i, at, line, to)

\* ------------------------------------------------------------ process_file
\* Variant of L20: the header line is printed before the fields are extracted.
L20Header(i) ==
    /\ pc[i] = "l20"
    /\ data' = [data EXCEPT ![i] = event[i]]
    /\ out' = [out EXCEPT ![i] = Append(out[i], "Processing file upload:")]
    /\ printed' = [printed EXCEPT ![i] =
                      Append(printed[i], "Processing file upload:")]
    /\ pc' = [pc EXCEPT ![i] = "l23"]
    /\ UNCHANGED <<event, given, bucket_name, file_name, content_type, size,
                   time_created, e, frag, capture, result, exc, last>>

\* data = cloud_event.data
L20(i) ==
    /\ pc[i] = "l20"
    /\ data' = [data EXCEPT ![i] = event[i]]
    /\ pc' = [pc EXCEPT ![i] = "l23"]
    /\ UNCHANGED <<event, given, bucket_name, file_name, content_type, size,
                   time_created, e, frag, printed, capture, out, result,
                   exc, last>>

\* bucket_name = data["bucket"]
L23(i) ==
    /\ pc[i] = "l23"
    /\ IF "bucket" \in DOMAIN data[i]
       THEN /\ bucket_name' = [bucket_name EXCEPT ![i] = data[i]["bucket"]]
            /\ pc' = [pc EXCEPT ![i] = "l24"]
            /\ UNCHANGED <<event, given, data, file_name, content_type, size,
                           time_created, e, frag, printed, capture, out, result,
                   exc, last>>
       ELSE Raise(i, KeyError("bucket"))

\* The mapping d without key k.
Without(d, k) == [x \in DOMAIN d \ {k} |-> d[x]]

\* Variant of L24: file_name = data.get("name"), a missing name is tolerated.
L24Lenient(i) ==
    /\ pc[i] = "l24"
    /\ file_name' = [file_name EXCEPT ![i] = Get(data[i], "name", NoneVal)]
    /\ pc' = [pc EXCEPT ![i] = "l25"]
    /\ UNCHANGED <<event, given, data, bucket_name, content_type, size,
                   time_created, e, frag, printed, capture, out, result,
                   exc, last>>

\* Variant of L24: file_name = data.pop("name"); data is the platform's
\* object, so the key disappears from the event as well.
L24Pop(i) ==
    /\ pc[i] = "l24"
    /\ IF "name" \in DOMAIN data[i]
       THEN /\ file_name' = [file_name EXCEPT ![i] = data[i]["name"]]
            /\ data' = [data EXCEPT ![i] = Without(data[i], "name")]
            /\ event' = [event EXCEPT ![i] = Without(event[i], "name")]
            /\ pc' = [pc EXCEPT ![i] = "l25"]
            /\ UNCHANGED <<given, bucket_name, content_type, size,
                           time_created, e, frag, printed, capture, out, result,
                   exc, last>>
       ELSE Raise(i, KeyError("name"))

\* file_name = data["name"]
L24(i) ==
    /\ pc[i] = "l24"
    /\ IF "name" \in DOMAIN data[i]
       THEN /\ file_name' = [file_name EXCEPT ![i] = data[i]["name"]]
            /\ pc' = [pc EXCEPT ![i] = "l25"]
            /\ UNCHANGED <<event, given, data, bucket_name, content_type, size,
                           time_created, e, frag, printed, capture, out, result,
                   exc, last>>
       ELSE Raise(i, KeyError("name"))

\* Variant of L25: content_type = data["contentType"], a strict lookup.
L25Strict(i) ==
    /\ pc[i] = "l25"
    /\ IF "contentType" \in DOMAIN data[i]
       THEN /\ content_type' = [content_type EXCEPT ![i] =
                                  data[i]["contentType"]]
            /\ pc' = [pc EXCEPT ![i] = "l26"]
            /\ UNCHANGED <<event, given, data, bucket_name, file_name, size,
                           time_created, e, frag, printed, capture, out, result,
                   exc, last>>
       ELSE Raise(i, KeyError("contentType"))

\* content_type = data.get("contentType", "unknown")
L25(i) ==
    /\ pc[i] = "l25"
    /\ content_type' = [content_type EXCEPT ![i] =
                          Get(data[i], "contentType", StrVal("unknown"))]
    /\ pc' = [pc EXCEPT ![i] = "l26"]
    /\ UNCHANGED <<event, given, data, bucket_name, file_name, size,
                   time_created, e, frag, printed, capture, out, result,
                   exc, last>>

\* size = data.get("size", 0)
L26(i) ==
    /\ pc[i] = "l26"
    /\ size' = [size EXCEPT ![i] = Get(data[i], "size", IntVal(0))]
    /\ pc' = [pc EXCEPT ![i] = "l27"]
    /\ UNCHANGED <<event, given, data, bucket_name, file_name, content_type,
                   time_created, e, frag, printed, capture, out, result,
                   exc, last>>

\* time_created = data.get("timeCreated")
L27(i) ==
    /\ pc[i] = "l27"
    /\ time_created' = [time_created EXCEPT ![i] =
                          Get(data[i], "timeCreated", NoneVal)]
    /\ pc' = [pc EXCEPT ![i] = "l29"]
    /\ UNCHANGED <<event, given, data, bucket_name, file_name, content_type,
                   size, e, frag, printed, capture, out, result, exc, last>>

\* print(f"Processing file upload:")
L29(i) == PrintLine(i, "l29", "Processing file upload:", "l30")

\* print(f"  Bucket: {bucket_name}")
L30(i) == PrintLine(i, "l30", "  Bucket: " \o Str(bucket_name[i]), "l31")

\* print(f"  File: {file_name}")
L31(i) == PrintLine(i, "l31", "  File: " \o Str(file_name[i]), "l32")

\* print(f"  Content Type: {content_type}")
L32(i) == PrintLine(i, "l32", "  Content Type: " \o Str(content_type[i]), "l33")

\* Variant of L33: the unit is left out of the size line.
L33NoUnit(i) == PrintLine(i, "l33", "  Size: " \o Str(size[i]), "l34")

\* print(f"  Size: {size} bytes")
L33(i) == PrintLine(i, "l33", "  Size: " \o Str(size[i]) \o " bytes", "l34")

\* print(f"  Created: {time_created}")
L34(i) == PrintLine(i, "l34", "  Created: " \o Str(time_created[i]), "l46")

\* Variant of L46: file_name is a module-level name that every invocation
\* assigns, so line 46 prints the name that any running invocation bound.
L46Global(i) ==
    \E j \in Inv :
        /\ file_name[j] # Unset
        /\ PrintLine(i, "l46",
                     "Successfully processed file: " \o Str(file_name[j]), "end")

\* try: print(f"Successfully processed file: {file_name}")
L46(i) ==
    PrintLine(i, "l46", "Successfully processed file: " \o Str(file_name[i]),
              "end")

\* The end of the function body is reached: process_file returns None.
Return(i) ==
    /\ pc[i] = "end"
    /\ pc' = [pc EXCEPT ![i] = "idle"]
    /\ result' = [result EXCEPT ![i] = "returned"]
    /\ data' = [data EXCEPT ![i] = Unset]
    /\ bucket_name' = [bucket_name EXCEPT ![i] = Unset]
    /\ file_name' = [file_name EXCEPT ![i] = Unset]
    /\ content_type' = [content_type EXCEPT ![i] = Unset]
    /\ size' = [size EXCEPT ![i] = Unset]
    /\ time_created' = [time_created EXCEPT ![i] = Unset]
    /\ e' = [e EXCEPT ![i] = NoExc]
    /\ UNCHANGED <<event, given, frag, printed, capture, out, exc, last>>

\* ------------------------------------------------- failing writes to stdout
SummaryLines == {"l29", "l30", "l31", "l32", "l33", "l34"}

\* The positions from the first print of the summary to the end of the try block.
FromSummary ==
    UNION {Positions(at) : at \in SummaryLines \cup {"l46"}} \cup {"end"}

\* A write of the print call of position at can raise: the write of the text
\* (nothing of the line is on the stream then) or the write of the newline
\* (the text stays on the stream and no newline ends it).
WriteRaises(i, at) == pc[i] \in {W(at), W(Nl(at))}

\* One of the print calls of lines 29-34 raises x.  They are outside the try
\* statement, so x leaves process_file at once.
SummaryPrintRaises(i, x) ==
    /\ \E at \in SummaryLines : WriteRaises(i, at)
    /\ Raise(i, x)

\* The print call of line 46 raises x inside the try statement:
\* "except Exception as e" catches it and binds it to e.
L46Raises(i, x) ==
    /\ WriteRaises(i, "l46")
    /\ e' = [e EXCEPT ![i] = x]
    /\ pc' = [pc EXCEPT ![i] = "l59"]
    /\ UNCHANGED <<event, given, data, bucket_name, file_name, content_type,
                   size, time_created, frag, printed, capture, out, result,
                   exc, last>>

\* Variant of L59: the error line names the bucket instead of the file.
L59WrongName(i) ==
    PrintLine(i, "l59",
              "Error processing file " \o Str(bucket_name[i]) \o ": "
                  \o e[i].msg,
              "l60")

\* print(f"Error processing file {file_name}: {str(e)}")
L59(i) ==
    PrintLine(i, "l59",
              "Error processing file " \o Str(file_name[i]) \o ": "
                  \o e[i].msg,
              "l60")

\* The print call of line 59 raises x inside the except clause: x replaces
\* the exception being handled and leaves process_file.
L59Raises(i, x) ==
    /\ WriteRaises(i, "l59")
    /\ Raise(i, x)

\* Variant of L60: the raise statement is missing, the error is swallowed.
L60Swallow(i) ==
    /\ pc[i] = "l60"
    /\ pc' = [pc EXCEPT ![i] = "idle"]
    /\ result' = [result EXCEPT ![i] = "returned"]
    /\ data' = [data EXCEPT ![i] = Unset]
    /\ bucket_name' = [bucket_name EXCEPT ![i] = Unset]
    /\ file_name' = [file_name EXCEPT ![i] = Unset]
    /\ content_type' = [content_type EXCEPT ![i] = Unset]
    /\ size' = [size EXCEPT ![i] = Unset]
    /\ time_created' = [time_created EXCEPT ![i] = Unset]
    /\ e' = [e EXCEPT ![i] = NoExc]
    /\ UNCHANGED <<event, given, frag, printed, capture, out, exc, last>>

\* raise
L60(i) ==
    /\ pc[i] = "l60"
    /\ Raise(i, e[i])

\* ---------------------------------------------------------- specifications
\* The statements of process_file when every write to stdout succeeds.
Step(i) ==
    \/ L20(i) \/ L23(i) \/ L24(i) \/ L25(i) \/ L26(i) \/ L27(i)
    \/ L29(i) \/ L30(i) \/ L31(i) \/ L32(i) \/ L33(i) \/ L34(i)
    \/ L46(i) \/ Return(i)

\* The steps that exist only when a write to stdout raises.
FaultStep(i) ==
    \/ \E x \in WriteErrors : SummaryPrintRaises(i, x)
    \/ \E x \in WriteErrors : L46Raises(i, x)
    \/ L59(i)
    \/ \E x \in WriteErrors : L59Raises(i, x)
    \/ L60(i)

\* One invocation at a time, stdout accepts every write.
Next ==
    \E i \in Solo :
        \/ \E d \in Notifications : Invoke(i, d)
        \/ Redeliver(i)
        \/ Step(i)

Spec == Init /\ [][Next]_vars

\* The same, and an invocation that has started keeps executing statements:
\* the interpreter runs the function body to its end.
SpecLive == Init /\ [][Next]_vars /\ \A i \in Solo : WF_vars(Step(i))

\* One invocation at a time, a write to stdout may raise.
NextFault ==
    \E i \in Solo :
        \/ \E d \in SmallNotifications : Invoke(i, d)
        \/ Redeliver(i)
        \/ Step(i)
        \/ FaultStep(i)

SpecFault == Init /\ [][NextFault]_vars

\* Up to NumInv invocations at once, their steps interleaved in any order,
\* all of them writing to the one sys.stdout.
NextConc ==
    \E i \in Inv :
        \/ \E d \in SmallNotifications : Dispatch(i, d)
        \/ Step(i)

SpecConc == Init /\ [][NextConc]_vars

\* ------------------------------------------------- vocabulary of the claims
\* Invocation i has finished (returned or raised) and none is running in slot i.
Ran(i) == pc[i] = "idle" /\ result[i] # "none"

\* The notification contains both required keys.
WellFormed(d) == {"bucket", "name"} \subseteq DOMAIN d

Contains(lines, line) == \E j \in 1..Len(lines) : lines[j] = line

IsPrefix(s, t) == Len(s) <= Len(t) /\ \A j \in 1..Len(s) : s[j] = t[j]

SuccessLine(n) == "Successfully processed file: " \o Str(n)
ErrorLine(n, x) == "Error processing file " \o Str(n) \o ": " \o x.msg

\* Every success line an invocation could print.
SuccessLines == {SuccessLine(n) : n \in NameValues \cup {NoneVal}}

\* The lines that the newline of the except clause's print can end: the error
\* text, after the success text when only the newline of line 46 failed.
ErrorEnded(n, x) == {ErrorLine(n, x), SuccessLine(n) \o ErrorLine(n, x)}

\* Every line that the newline of an except clause's print could end.
ErrorEndedLines ==
    UNION {ErrorEnded(n, x) : n \in NameValues \cup {NoneVal},
                              x \in WriteErrors \cup {KeyError(k) : k \in Keys}}

\* The text printed for key k of d, or the given text when d has no key k.
Shown(d, k, whenAbsent) == IF k \in DOMAIN d THEN Str(d[k]) ELSE whenAbsent

\* The seven lines of section 6 of the specification for notification d.
ExpectedLines(d) ==
    << "Processing file upload:",
       "  Bucket: " \o Str(d["bucket"]),
       "  File: " \o Str(d["name"]),
       "  Content Type: " \o Shown(d, "contentType", "unknown"),
       "  Size: " \o Shown(d, "size", "0") \o " bytes",
       "  Created: " \o Shown(d, "timeCreated", "None"),
       "Successfully processed file: " \o Str(d["name"]) >>

\* --------------------------------------------------------------- claims
\* C1: an invocation given a notification that contains both bucket and name
\* returns normally, without an exception, and its output contains the
\* 'Processing file upload:' line and the 'Successfully processed file: <name>'
\* line.
C1_WellFormedSucceeds ==
    \A i \in Inv :
        (Ran(i) /\ WellFormed(given[i])) =>
            /\ result[i] = "returned"
            /\ exc[i] = NoExc
            /\ Contains(out[i], "Processing file upload:")
            /\ Contains(out[i], SuccessLine(given[i]["name"]))

\* An invocation given only bucket and name has returned.
C1_Witness ==
    \E i \in Inv :
        /\ Ran(i)
        /\ DOMAIN given[i] = {"bucket", "name"}
        /\ result[i] = "returned"
        /\ Len(out[i]) = 7

C2_NoSuccessWithoutKeys ==
    \A i \in Inv :
        (result[i] # "none" /\ ~WellFormed(given[i])) =>
            /\ \A j \in 1..Len(out[i]) : out[i][j] \notin SuccessLines
            /\ pc[i] \notin Positions("l46") \cup {"end"}
            /\ result[i] # "returned"
            /\ Ran(i) =>
                 /\ result[i] = "raised"
                 /\ exc[i] = IF "bucket" \in DOMAIN given[i]
                             THEN KeyError("name") ELSE KeyError("bucket")

\* C2: an invocation given a notification without bucket or without name
\* terminates by raising (the KeyError of the first missing key), and at no
\* point of it is a 'Successfully processed file: ...' line in its output.
C2_MissingKeyRaises ==
    /\ []C2_NoSuccessWithoutKeys
    /\ \A i \in Inv :
          (result[i] = "running" /\ ~WellFormed(given[i]))
              ~> (Ran(i) /\ result[i] = "raised")

\* An invocation given a notification with bucket but without name has raised.
C2_Witness ==
    \E i \in Inv :
        /\ Ran(i)
        /\ "bucket" \in DOMAIN given[i]
        /\ "name" \notin DOMAIN given[i]
        /\ "size" \in DOMAIN given[i]
        /\ result[i] = "raised"

\* C5: the output of an invocation given bucket and name is, when it has
\* finished, exactly the seven lines of section 6 in their order, and while it
\* runs a prefix of them: the success line comes after the five field lines
\* and no other line is printed.
C5_ExactSevenLines ==
    \A i \in Inv :
        (result[i] # "none" /\ WellFormed(given[i])) =>
            /\ IsPrefix(out[i], ExpectedLines(given[i]))
            /\ Ran(i) => out[i] = ExpectedLines(given[i])

\* Scenario A of the specification has been processed.
C5_Witness ==
    \E i \in Inv :
        /\ Ran(i)
        /\ given[i] = [bucket |-> StrVal("uploads"), name |-> StrVal("a.txt"),
                       contentType |-> StrVal("text/plain"),
                       size |-> IntVal(120),
                       timeCreated |-> StrVal("2024-01-01T00:00:00Z")]
        /\ out[i] = << "Processing file upload:",
                       "  Bucket: uploads",
                       "  File: a.txt",
                       "  Content Type: text/plain",
                       "  Size: 120 bytes",
                       "  Created: 2024-01-01T00:00:00Z",
                       "Successfully processed file: a.txt" >>

\* C6: given bucket and name, an absent optional key is extracted as its
\* default and printed as 'unknown', '0 bytes' and 'None'; a present optional
\* key is extracted and printed with the value supplied; the invocation
\* returns either way.
C6_OptionalDefaults ==
    \A i \in Inv :
        (result[i] # "none" /\ WellFormed(given[i])) =>
            LET d == given[i] IN
            /\ pc[i] \in {"l26", "l27"} \cup FromSummary =>
                 content_type[i] = IF "contentType" \in DOMAIN d
                                   THEN d["contentType"] ELSE StrVal("unknown")
            /\ pc[i] \in {"l27"} \cup FromSummary =>
                 size[i] = IF "size" \in DOMAIN d THEN d["size"] ELSE IntVal(0)
            /\ pc[i] \in FromSummary =>
                 time_created[i] = IF "timeCreated" \in DOMAIN d
                                   THEN d["timeCreated"] ELSE NoneVal
            /\ Ran(i) =>
                 /\ result[i] = "returned"
                 /\ Len(out[i]) >= 6
                 /\ out[i][4] = IF "contentType" \in DOMAIN d
                                THEN "  Content Type: " \o Str(d["contentType"])
                                ELSE "  Content Type: unknown"
                 /\ out[i][5] = IF "size" \in DOMAIN d
                                THEN "  Size: " \o Str(d["size"]) \o " bytes"
                                ELSE "  Size: 0 bytes"
                 /\ out[i][6] = IF "timeCreated" \in DOMAIN d
                                THEN "  Created: " \o Str(d["timeCreated"])
                                ELSE "  Created: None"

\* Scenario B of the specification has been processed with the three defaults.
C6_Witness ==
    \E i \in Inv :
        /\ Ran(i)
        /\ given[i] = [bucket |-> StrVal("uploads"), name |-> StrVal("b.bin")]
        /\ result[i] = "returned"
        /\ out[i][4] = "  Content Type: unknown"
        /\ out[i][5] = "  Size: 0 bytes"
        /\ out[i][6] = "  Created: None"

\* C7: an invocation that was given the same notification as the invocation
\* before it in its slot has the same outcome (lines, return or raise, and
\* exception), whatever ran earlier, and process_file never changes the
\* notification object it was given.
C7_SameInputSameOutcome ==
    \A i \in Inv :
        /\ (Ran(i) /\ last[i] # NoOutcome) => Outcome(i) = last[i]
        /\ result[i] # "none" => event[i] = given[i]

\* A second invocation with the identical notification has returned after a
\* first one did.
C7_Witness ==
    \E i \in Inv :
        /\ Ran(i)
        /\ last[i] # NoOutcome
        /\ last[i].result = "returned"
        /\ result[i] = "returned"
        /\ Len(out[i]) = 7

\* C9: nothing is printed before all five fields are extracted: an invocation
\* that has printed a line was given both bucket and name and has all five
\* locals bound, and an invocation that raised for a missing bucket or name has
\* printed no line at all.
C9_NoOutputBeforeExtraction ==
    \A i \in Inv :
        /\ out[i] # <<>> => WellFormed(given[i])
        /\ pc[i] \in {"l20", "l23", "l24", "l25", "l26", "l27"} => out[i] = <<>>
        /\ (out[i] # <<>> /\ pc[i] # "idle") =>
             /\ bucket_name[i] = given[i]["bucket"]
             /\ file_name[i] = given[i]["name"]
             /\ content_type[i] # Unset
             /\ size[i] # Unset
             /\ time_created[i] # Unset
        /\ (Ran(i) /\ ~WellFormed(given[i])) =>
             /\ result[i] = "raised"
             /\ out[i] = <<>>

\* An invocation given name but no bucket has raised with an empty output.
C9_Witness ==
    \E i \in Inv :
        /\ Ran(i)
        /\ "bucket" \notin DOMAIN given[i]
        /\ "name" \in DOMAIN given[i]
        /\ result[i] = "raised"
        /\ out[i] = <<>>

\* C10: the defaults of contentType and size apply only to an absent key: a
\* key present with None is printed as 'Content Type: None' and
\* 'Size: None bytes', an empty contentType as an empty text and a size of 0
\* as '0 bytes', and the invocation returns.
C10_DefaultsOnlyWhenAbsent ==
    \A i \in Inv :
        (Ran(i) /\ WellFormed(given[i])) =>
            LET d == given[i] IN
            /\ result[i] = "returned"
            /\ ("contentType" \in DOMAIN d /\ d["contentType"] = NoneVal) =>
                 out[i][4] = "  Content Type: None"
            /\ ("contentType" \in DOMAIN d /\ d["contentType"] = StrVal("")) =>
                 out[i][4] = "  Content Type: "
            /\ ("size" \in DOMAIN d /\ d["size"] = NoneVal) =>
                 out[i][5] = "  Size: None bytes"
            /\ ("size" \in DOMAIN d /\ d["size"] = IntVal(0)) =>
                 out[i][5] = "  Size: 0 bytes"

\* An invocation given contentType None and size None has returned.
C10_Witness ==
    \E i \in Inv :
        /\ Ran(i)
        /\ WellFormed(given[i])
        /\ "contentType" \in DOMAIN given[i]
        /\ given[i]["contentType"] = NoneVal
        /\ "size" \in DOMAIN given[i]
        /\ given[i]["size"] = NoneVal
        /\ result[i] = "returned"
        /\ out[i][4] = "  Content Type: None"
        /\ out[i][5] = "  Size: None bytes"

\* C3 as stated: whenever a step after the extraction raised (only a write to
\* stdout can), the invocation ends with the error line naming the file and
\* that error as its last line, the error itself going to the caller.
C3_AnyLaterErrorLogged ==
    \A i \in Inv :
        (Ran(i) /\ result[i] = "raised" /\ exc[i] \in WriteErrors) =>
            /\ Len(out[i]) > 0
            /\ out[i][Len(out[i])] \in ErrorEnded(given[i]["name"], exc[i])

\* What one step of invocation i does around the try statement.
C3_Step(i) ==
    \* an error of a write of line 46 enters the except clause, bound to e
    /\ (pc[i] \in Positions("l46") /\ pc'[i] \notin Positions("l46") \cup {"end"}) =>
         /\ pc[i] \in InsideWrite
         /\ pc'[i] = "l59"
         /\ e'[i] \in WriteErrors
         /\ result'[i] = "running"
         /\ frag' = frag
         /\ out'[i] = out[i]
    \* the except clause writes the error text, unless that write raises
    /\ (pc[i] = "l59w" /\ pc'[i] # "l59w") =>
         \/ /\ pc'[i] = "l59n"
            /\ frag' = Append(frag, ErrorLine(given[i]["name"], e[i]))
            /\ e'[i] = e[i]
         \/ /\ pc'[i] = "idle"
            /\ result'[i] = "raised"
            /\ exc'[i] \in WriteErrors
            /\ out'[i] = out[i]
    \* and the newline that ends it, unless that write raises
    /\ (pc[i] = "l59nw" /\ pc'[i] # "l59nw") =>
         \/ /\ pc'[i] = "l60"
            /\ out'[i] = Append(out[i], Concat(frag))
            /\ Concat(frag) \in ErrorEnded(given[i]["name"], e[i])
            /\ frag' = <<>>
            /\ e'[i] = e[i]
         \/ /\ pc'[i] = "idle"
            /\ result'[i] = "raised"
            /\ exc'[i] \in WriteErrors
            /\ out'[i] = out[i]
    \* entering a write of the except clause changes nothing
    /\ (pc[i] \in {"l59", "l59n"} /\ pc'[i] # pc[i]) =>
         /\ pc'[i] = W(pc[i])
         /\ e'[i] = e[i]
         /\ frag' = frag
         /\ out'[i] = out[i]
    \* and then the except clause re-raises the error it caught
    /\ (pc[i] = "l60" /\ pc'[i] # "l60") =>
         /\ pc'[i] = "idle"
         /\ result'[i] = "raised"
         /\ exc'[i] = e[i]
         /\ out'[i] = out[i]
    \* an error of the prints of lines 29-34 leaves without an error text
    /\ (pc[i] \in UNION {Positions(at) : at \in SummaryLines}
          /\ pc'[i] = "idle") =>
         /\ pc[i] \in InsideWrite
         /\ result'[i] = "raised"
         /\ exc'[i] \in WriteErrors
         /\ out'[i] = out[i]
         /\ frag' = frag
    \* process_file returns only from the end of the try block
    /\ (result[i] = "running" /\ result'[i] = "returned") =>
         /\ pc[i] = "end"
         /\ out[i][Len(out[i])] = SuccessLine(given[i]["name"])

\* C3 (amended): an error raised inside the try statement (by a write of the
\* print of line 46) is caught; the except clause writes the text 'Error
\* processing file <name>: <message>' and a newline, which ends the line
\* (after the success text when only the newline of line 46 failed), and then
\* re-raises that same error, or, when one of these two writes raises too,
\* lets that error go to the caller; process_file never returns after such an
\* error.  An error raised by the prints of lines 29-34 goes to the caller
\* with no error text written.
C3_TryErrorLoggedAndReraised == [][\A i \in Inv : C3_Step(i)]_vars

\* An invocation whose line 46 raised has printed the error line and re-raised.
C3_Witness ==
    \E i \in Inv :
        /\ Ran(i)
        /\ result[i] = "raised"
        /\ exc[i] \in WriteErrors
        /\ Len(out[i]) = 7
        /\ out[i][7] = ErrorLine(given[i]["name"], exc[i])

\* C4 as stated: an invocation that ended with an exception has printed an
\* error line.
C4_EveryErrorLogged ==
    \A i \in Inv :
        (Ran(i) /\ result[i] = "raised") =>
            \E j \in 1..Len(out[i]) : out[i][j] \in ErrorEndedLines

\* C4 (amended): an invocation that ended with an exception has ended a line
\* with the error text exactly when it printed the whole six-line summary and
\* one more line, and that line then names the file and the exception that
\* went to the caller; the KeyError of a missing bucket or name goes to the
\* caller with nothing printed, and an error of a summary print with no such
\* line.
C4_LoggedOnlyInsideTry ==
    \A i \in Inv :
        (Ran(i) /\ result[i] = "raised") =>
            /\ exc[i].type = "KeyError" =>
                 /\ ~WellFormed(given[i])
                 /\ out[i] = <<>>
            /\ exc[i].type # "KeyError" =>
                 /\ exc[i] \in WriteErrors
                 /\ WellFormed(given[i])
                 /\ Len(out[i]) <= 7
                 /\ \A j \in 1..Len(out[i]) :
                        out[i][j] \in ErrorEndedLines <=> j = 7
                 /\ Len(out[i]) = 7 =>
                        out[i][7] \in ErrorEnded(given[i]["name"], exc[i])

\* An invocation given no bucket has raised KeyError with nothing printed.
C4_Witness ==
    \E i \in Inv :
        /\ Ran(i)
        /\ result[i] = "raised"
        /\ exc[i] = KeyError("bucket")
        /\ out[i] = <<>>

\* The outcome of process_file(d) when it runs alone and stdout accepts every
\* write, as sections 4.1 and 6 of the specification describe it.
Alone(d) ==
    IF WellFormed(d)
    THEN [out |-> ExpectedLines(d), result |-> "returned", exc |-> NoExc]
    ELSE [out |-> <<>>, result |-> "raised",
          exc |-> IF "bucket" \in DOMAIN d
                  THEN KeyError("name") ELSE KeyError("bucket")]

\* Everything the model keeps for slot i.
SlotState(i) ==
    <<pc[i], event[i], given[i], data[i], bucket_name[i], file_name[i],
      content_type[i], size[i], time_created[i], e[i], printed[i], capture[i],
      out[i], result[i], exc[i], last[i]>>

C8_OutcomeAsAlone ==
    \A i \in Inv :
        result[i] # "none" =>
            /\ IsPrefix(printed[i], Alone(given[i]).out)
            /\ Ran(i) =>
                 /\ printed[i] = Alone(given[i]).out
                 /\ result[i] = Alone(given[i]).result
                 /\ exc[i] = Alone(given[i]).exc

C8_OneSlotPerStep ==
    \E i \in Inv : \A j \in Inv \ {i} : SlotState(j)' = SlotState(j)

\* C8: with the steps of several invocations interleaved in any order, the
\* lines each invocation prints, in its own order, and its return or raise
\* are those of running it alone on its own notification, and every step
\* changes the state of one invocation only.
C8_Independent == []C8_OutcomeAsAlone /\ [][C8_OneSlotPerStep]_vars

\* Two invocations given different names have both returned after writes of
\* theirs overlapped, each having printed its seven lines.
C8_Witness ==
    \E i \in Inv : \E j \in Inv \ {i} :
        /\ Ran(i) /\ Ran(j)
        /\ result[i] = "returned" /\ result[j] = "returned"
        /\ given[i]["name"] # given[j]["name"]
        /\ frag = Torn
        /\ Len(printed[i]) = 7 /\ Len(printed[j]) = 7

====
